---- MODULE Spec2Model ----
(***************************************************************************)
(* A model of src/src/services/user.js: the account edit operations        *)
(* (updateUser, updateUserImage) and the two social sign-in flows           *)
(* (signInWithGoogle, signInWithFacebook) over the shared User storage.     *)
(*                                                                         *)
(* Every `await` of the source is a point where another call may run, so    *)
(* each call is a small process whose position `pc` names the await it is   *)
(* suspended at.  The storage is the sequence `users`; an account's id is   *)
(* its position in it.                                                      *)
(***************************************************************************)
EXTENDS Integers, Sequences, FiniteSets, TLC

VARIABLES
    users,   \* the User table: a sequence of account records, id = index
    proc     \* per call slot: position, arguments and locals of the running call

vars == <<users, proc>>

---------------------------------------------------------------------------
(* Bounds and value sets *)

\* the most accounts the table holds
MaxUsers == 2

\* the call slots: at most two calls are in flight at once
Procs == {1, 2}

\* null / undefined
None == "null"

\* no record held in a local
Nil == <<>>

---------------------------------------------------------------------------
(* The program's constants and pure functions *)

\* an allow-list that also lets a caller set the registration date
AllowedAttrsWithDate ==
    {"first_name", "last_name", "email", "registration_date"}

\* an allow-list that lets google_id through
AllowedAttrsWide == {"first_name", "last_name", "email", "google_id"}

ALLOWED_ATTRS_TO_UPDATE == {"first_name", "last_name", "email"}

\* _.pick(data, keys): the entries of data whose key is in keys
Pick(data, keys) == [k \in (DOMAIN data) \cap keys |-> data[k]]

\* model.set(attrs): attrs laid over the model's attributes
SetAttrs(model, attrs) ==
    [k \in (DOMAIN model) \cup (DOMAIN attrs) |->
        IF k \in DOMAIN attrs THEN attrs[k] ELSE model[k]]

\* !v || _.isEmpty(v) for a string-or-null attribute
Missing(v) == v = None \/ v = ""

\* the attribute of a model, undefined when it has none of that name
Attr(model, k) == IF k \in DOMAIN model THEN model[k] ELSE None

\* a validateUser without the email check
validateUserNoEmail(user) ==
    IF user.first_name = None \/ user.first_name = "" THEN "first_name_required"
    ELSE IF user.last_name = None \/ user.last_name = "" THEN "last_name_required"
    ELSE "ok"

\* a validateUser that checks the email before the two names
validateUserEmailFirst(user) ==
    IF Missing(Attr(user, "email")) THEN "email_required"
    ELSE IF Missing(Attr(user, "first_name")) THEN "first_name_required"
    ELSE IF Missing(Attr(user, "last_name")) THEN "last_name_required"
    ELSE "ok"

\* validateUser: the name of the error thrown, or "ok"
validateUser(user) ==
    IF Missing(Attr(user, "first_name")) THEN "first_name_required"
    ELSE IF Missing(Attr(user, "last_name")) THEN "last_name_required"
    ELSE IF Missing(Attr(user, "email")) THEN "email_required"
    ELSE "ok"

\* the ids of the stored accounts
Ids == 1..Len(users)

\* queries.find(User, {field: value}, {require: false}): the id of the first
\* stored account whose field equals value, 0 when there is none
Find(field, value) ==
    IF \E i \in Ids : users[i][field] = value
    THEN CHOOSE i \in Ids :
            /\ users[i][field] = value
            /\ \A j \in Ids : users[j][field] = value => i <= j
    ELSE 0

\* files.uploadUserImage(user, imagePath): the URL the image is stored under
UploadUrl(imagePath) == "url:" \o imagePath

\* files.downloadFileFromUrl(url): the local path of the downloaded file
DownloadPath(url) == "dl"

\* model.save() of a loaded account: the whole record is written back
SaveExisting(table, model) == [table EXCEPT ![model.id] = model]

\* model.save() of a new account: a row is inserted and gets the next id
SaveNew(table, model) == Append(table, [model EXCEPT !.id = Len(table) + 1])

---------------------------------------------------------------------------
(* Call slots *)

Idle == [pc |-> "idle", op |-> "none", profile |-> Nil, data |-> Nil,
         attrs |-> Nil, id |-> 0, path |-> None, user |-> Nil,
         result |-> 0, match |-> "none", error |-> None, again |-> FALSE,
         before |-> "none"]

\* a slot is free when no call runs in it
Free(p) == proc[p].pc \in {"idle", "done", "failed"}

\* the call throws err: the slot keeps the error
Fail(p, err) ==
    proc' = [proc EXCEPT ![p] = [Idle EXCEPT !.pc = "failed", !.op = proc[p].op,
                                             !.error = err]]

\* the call returns the account id: the slot keeps the call's arguments, the
\* id returned and how the account was resolved
Return(p, id, how) ==
    proc' = [proc EXCEPT ![p] = [Idle EXCEPT !.pc = "done", !.op = proc[p].op,
                                             !.profile = proc[p].profile,
                                             !.data = proc[p].data,
                                             !.id = proc[p].id,
                                             !.again = proc[p].again,
                                             !.before = proc[p].before,
                                             !.result = id, !.match = how]]

\* the calls that have decided to create an account and have not saved it yet
Creating == {q \in Procs : proc[q].pc \in {"download", "upload", "save"}}

\* room in the table for one more account (the bound of the model)
CanCreate == Len(users) + Cardinality(Creating) < MaxUsers

Init ==
    /\ users = <<>>
    /\ proc = [p \in Procs |-> Idle]

---------------------------------------------------------------------------
(* The sign-in flow: the steps both providers share, by provider field *)

\* a sign-in call begins and awaits the provider's profile
SignInStart(p, o) ==
    /\ Free(p)
    /\ LET same == proc[p].pc = "done" /\ proc[p].op = o
       IN proc' = [proc EXCEPT ![p] =
                      [Idle EXCEPT !.pc = "profile", !.op = o, !.again = same,
                                   !.profile = IF same THEN proc[p].profile ELSE Nil,
                                   !.result = IF same THEN proc[p].result ELSE 0,
                                   !.before = IF same THEN proc[p].match
                                                      ELSE "none"]]
    /\ UNCHANGED users

\* the provider answers with the verified profile
SignInProfile(p, o, profile) ==
    /\ proc[p].pc = "profile" /\ proc[p].op = o
    /\ LET same == proc[p].again /\ proc[p].profile = profile
       IN proc' = [proc EXCEPT ![p].pc = "find_email", ![p].profile = profile,
                               ![p].again = same,
                               ![p].result = IF same THEN proc[p].result ELSE 0,
                               ![p].before = IF same THEN proc[p].before
                                                     ELSE "none"]
    /\ UNCHANGED users

\* the provider call throws
SignInProfileFail(p, o) ==
    /\ proc[p].pc = "profile" /\ proc[p].op = o
    /\ Fail(p, "provider_error")
    /\ UNCHANGED users

\* queries.find by email returns; on a hit the provider id is set on the
\* loaded account and save() is issued
SignInFindByEmail(p, o, idField) ==
    /\ proc[p].pc = "find_email" /\ proc[p].op = o
    /\ LET i == Find("email", proc[p].profile.email)
       IN IF i # 0
          THEN proc' = [proc EXCEPT
                   ![p].pc = "link",
                   ![p].user = SetAttrs(users[i],
                                        [k \in {idField} |-> proc[p].profile.id])]
          ELSE proc' = [proc EXCEPT ![p].pc = "find_id"]
    /\ UNCHANGED users

\* the save() of the linked account reaches the table; the call returns it
SignInLink(p, o) ==
    /\ proc[p].pc = "link" /\ proc[p].op = o
    /\ users' = SaveExisting(users, proc[p].user)
    /\ Return(p, proc[p].user.id, "email")

\* queries.find by provider id returns; on a hit the account is returned
\* untouched, on a miss the new User is constructed and the download begins
SignInFindById(p, o, idField, newUser) ==
    /\ proc[p].pc = "find_id" /\ proc[p].op = o
    /\ LET i == Find(idField, proc[p].profile.id)
       IN IF i # 0
          THEN Return(p, i, "id")
          ELSE /\ CanCreate
               /\ proc' = [proc EXCEPT ![p].pc = "download", ![p].user = newUser]
    /\ UNCHANGED users

\* files.downloadFileFromUrl returns the local path
SignInDownload(p, o, url) ==
    /\ proc[p].pc = "download" /\ proc[p].op = o
    /\ proc' = [proc EXCEPT ![p].pc = "upload", ![p].path = DownloadPath(url)]
    /\ UNCHANGED users

\* files.downloadFileFromUrl throws
SignInDownloadFail(p, o) ==
    /\ proc[p].pc = "download" /\ proc[p].op = o
    /\ Fail(p, "download_error")
    /\ UNCHANGED users

\* files.uploadUserImage returns the URL; image_url is set and save() issued
SignInUpload(p, o) ==
    /\ proc[p].pc = "upload" /\ proc[p].op = o
    /\ proc' = [proc EXCEPT
           ![p].pc = "save",
           ![p].user = SetAttrs(proc[p].user,
                                [image_url |-> UploadUrl(proc[p].path)])]
    /\ UNCHANGED users

\* files.uploadUserImage throws
SignInUploadFail(p, o) ==
    /\ proc[p].pc = "upload" /\ proc[p].op = o
    /\ Fail(p, "upload_error")
    /\ UNCHANGED users

\* the save() of the new account reaches the table; the call returns it
SignInSave(p, o) ==
    /\ proc[p].pc = "save" /\ proc[p].op = o
    /\ users' = SaveNew(users, proc[p].user)
    /\ Return(p, Len(users) + 1, "created")

---------------------------------------------------------------------------
(* signInWithGoogle *)

\* a NewGoogleUser with the two names swapped
NewGoogleUserSwapped(profile, now) ==
    [id |-> 0,
     first_name |-> profile.family_name,
     last_name |-> profile.given_name,
     email |-> profile.email,
     google_id |-> profile.id,
     facebook_id |-> None,
     image_url |-> None,
     registration_date |-> now]

\* a NewGoogleUser that leaves google_id to be set by a later link
NewGoogleUserUnlinked(profile, now) ==
    [id |-> 0,
     first_name |-> profile.given_name,
     last_name |-> profile.family_name,
     email |-> profile.email,
     google_id |-> None,
     facebook_id |-> None,
     image_url |-> None,
     registration_date |-> now]

\* new User({...}) from a Google profile
NewGoogleUser(profile, now) ==
    [id |-> 0,
     first_name |-> profile.given_name,
     last_name |-> profile.family_name,
     email |-> profile.email,
     google_id |-> profile.id,
     facebook_id |-> None,
     image_url |-> None,
     registration_date |-> now]

GoogleStart(p) == SignInStart(p, "google")

GoogleProfile(p, profile) == SignInProfile(p, "google", profile)

GoogleProfileFail(p) == SignInProfileFail(p, "google")

\* a GoogleFindByEmail that keeps one provider per account: linking the
\* Google id clears the Facebook id
GoogleFindByEmailExclusive(p) ==
    /\ proc[p].pc = "find_email" /\ proc[p].op = "google"
    /\ LET i == Find("email", proc[p].profile.email)
       IN IF i # 0
          THEN proc' = [proc EXCEPT
                   ![p].pc = "link",
                   ![p].user = SetAttrs(users[i],
                                        [google_id |-> proc[p].profile.id,
                                         facebook_id |-> None])]
          ELSE proc' = [proc EXCEPT ![p].pc = "find_id"]
    /\ UNCHANGED users

\* a GoogleFindByEmail that tries the Google id before the email
GoogleFindByIdFirst(p) ==
    /\ proc[p].pc = "find_email" /\ proc[p].op = "google"
    /\ LET i == Find("google_id", proc[p].profile.id)
           j == Find("email", proc[p].profile.email)
       IN IF i # 0
          THEN Return(p, i, "id")
          ELSE IF j # 0
          THEN proc' = [proc EXCEPT
                   ![p].pc = "link",
                   ![p].user = SetAttrs(users[j],
                                        [google_id |-> proc[p].profile.id])]
          ELSE proc' = [proc EXCEPT ![p].pc = "find_id"]
    /\ UNCHANGED users

\* a GoogleFindByEmail that, on a hit, goes on to fetch the profile's picture
\* for the account before saving it
GoogleFindByEmailRefreshAvatar(p) ==
    /\ proc[p].pc = "find_email" /\ proc[p].op = "google"
    /\ LET i == Find("email", proc[p].profile.email)
       IN IF i # 0
          THEN proc' = [proc EXCEPT
                   ![p].pc = "download",
                   ![p].user = SetAttrs(users[i],
                                        [google_id |-> proc[p].profile.id])]
          ELSE proc' = [proc EXCEPT ![p].pc = "find_id"]
    /\ UNCHANGED users

\* a GoogleFindByEmail that returns an account already linked to the
\* profile's Google id without saving it again
GoogleFindByEmailSkipLinked(p) ==
    /\ proc[p].pc = "find_email" /\ proc[p].op = "google"
    /\ LET i == Find("email", proc[p].profile.email)
       IN IF i # 0 /\ users[i].google_id = proc[p].profile.id
          THEN Return(p, i, "id")
          ELSE IF i # 0
          THEN proc' = [proc EXCEPT
                   ![p].pc = "link",
                   ![p].user = SetAttrs(users[i],
                                        [google_id |-> proc[p].profile.id])]
          ELSE proc' = [proc EXCEPT ![p].pc = "find_id"]
    /\ UNCHANGED users

GoogleFindByEmail(p) == SignInFindByEmail(p, "google", "google_id")

\* a GoogleLink that returns the account without saving it
GoogleLinkUnsaved(p) ==
    /\ proc[p].pc = "link" /\ proc[p].op = "google"
    /\ Return(p, proc[p].user.id, "email")
    /\ UNCHANGED users

GoogleLink(p) == SignInLink(p, "google")

\* a GoogleFindById that, on a hit, brings the account's email up to date
\* with the profile before returning it
GoogleFindByIdSyncEmail(p, now) ==
    /\ proc[p].pc = "find_id" /\ proc[p].op = "google"
    /\ LET i == Find("google_id", proc[p].profile.id)
       IN IF i # 0
          THEN /\ users' = [users EXCEPT ![i].email = proc[p].profile.email]
               /\ Return(p, i, "id")
          ELSE /\ CanCreate
               /\ proc' = [proc EXCEPT ![p].pc = "download",
                                       ![p].user = NewGoogleUser(proc[p].profile, now)]
               /\ UNCHANGED users

GoogleFindById(p, now) ==
    SignInFindById(p, "google", "google_id", NewGoogleUser(proc[p].profile, now))

GoogleDownload(p) == SignInDownload(p, "google", proc[p].profile.picture)

GoogleDownloadFail(p) == SignInDownloadFail(p, "google")

\* a GoogleUpload that issues save() without setting image_url
GoogleUploadDropsUrl(p) ==
    /\ proc[p].pc = "upload" /\ proc[p].op = "google"
    /\ proc' = [proc EXCEPT ![p].pc = "save"]
    /\ UNCHANGED users

GoogleUpload(p) == SignInUpload(p, "google")

\* a GoogleUploadFail that goes back to download the picture once more
GoogleUploadFailRetry(p) ==
    /\ proc[p].pc = "upload" /\ proc[p].op = "google"
    /\ proc' = [proc EXCEPT ![p].pc = "download", ![p].path = None]
    /\ UNCHANGED users

\* a GoogleUploadFail of a flow that saved the account before the upload
GoogleUploadFailSaved(p) ==
    /\ proc[p].pc = "upload" /\ proc[p].op = "google"
    /\ users' = SaveNew(users, proc[p].user)
    /\ Fail(p, "upload_error")

GoogleUploadFail(p) == SignInUploadFail(p, "google")

\* a GoogleSave that looks the email up again and inserts nothing when an
\* account holds it by now
GoogleSaveUnique(p) ==
    /\ proc[p].pc = "save" /\ proc[p].op = "google"
    /\ LET i == Find("email", proc[p].user.email)
       IN IF i # 0
          THEN /\ Return(p, i, "email")
               /\ UNCHANGED users
          ELSE /\ users' = SaveNew(users, proc[p].user)
               /\ Return(p, Len(users) + 1, "created")

GoogleSave(p) == SignInSave(p, "google")

---------------------------------------------------------------------------
(* signInWithFacebook *)

\* new User({...}) from a Facebook profile
NewFacebookUser(profile, now) ==
    [id |-> 0,
     first_name |-> profile.first_name,
     last_name |-> profile.last_name,
     email |-> profile.email,
     google_id |-> None,
     facebook_id |-> profile.id,
     image_url |-> None,
     registration_date |-> now]

FacebookStart(p) == SignInStart(p, "facebook")

FacebookProfile(p, profile) == SignInProfile(p, "facebook", profile)

FacebookProfileFail(p) == SignInProfileFail(p, "facebook")

FacebookFindByEmail(p) == SignInFindByEmail(p, "facebook", "facebook_id")

FacebookLink(p) == SignInLink(p, "facebook")

FacebookFindById(p, now) ==
    SignInFindById(p, "facebook", "facebook_id",
                   NewFacebookUser(proc[p].profile, now))

FacebookDownload(p) ==
    SignInDownload(p, "facebook", proc[p].profile.picture.data.url)

FacebookDownloadFail(p) == SignInDownloadFail(p, "facebook")

FacebookUpload(p) == SignInUpload(p, "facebook")

FacebookUploadFail(p) == SignInUploadFail(p, "facebook")

FacebookSave(p) == SignInSave(p, "facebook")

---------------------------------------------------------------------------
(* updateUser *)

\* the call picks the allowed attributes of data and awaits queries.get
UpdateStart(p, id, data) ==
    /\ Free(p)
    /\ proc' = [proc EXCEPT ![p] =
                   [Idle EXCEPT !.pc = "get", !.op = "update", !.id = id,
                                !.data = data,
                                !.attrs = Pick(data, ALLOWED_ATTRS_TO_UPDATE)]]
    /\ UNCHANGED users

\* queries.get returns the account (or throws when there is none); the
\* attributes are set on it, it is validated and save() is issued
UpdateGet(p) ==
    /\ proc[p].pc = "get" /\ proc[p].op = "update"
    /\ IF proc[p].id \notin Ids
       THEN Fail(p, "not_found")
       ELSE LET loadedUser == SetAttrs(users[proc[p].id], proc[p].attrs)
                err == validateUser(loadedUser)
            IN IF err # "ok"
               THEN Fail(p, err)
               ELSE proc' = [proc EXCEPT ![p].pc = "write", ![p].user = loadedUser]
    /\ UNCHANGED users

\* the save() of the edited account reaches the table
UpdateSave(p) ==
    /\ proc[p].pc = "write" /\ proc[p].op = "update"
    /\ users' = SaveExisting(users, proc[p].user)
    /\ Return(p, proc[p].user.id, "edited")

---------------------------------------------------------------------------
(* updateUserImage *)

\* the call awaits queries.get
ImageStart(p, id, imagePath) ==
    /\ Free(p)
    /\ proc' = [proc EXCEPT ![p] =
                   [Idle EXCEPT !.pc = "get", !.op = "image", !.id = id,
                                !.path = imagePath]]
    /\ UNCHANGED users

\* queries.get returns the account (or throws); the upload begins
ImageGet(p) ==
    /\ proc[p].pc = "get" /\ proc[p].op = "image"
    /\ IF proc[p].id \notin Ids
       THEN Fail(p, "not_found")
       ELSE proc' = [proc EXCEPT ![p].pc = "store", ![p].user = users[proc[p].id]]
    /\ UNCHANGED users

\* files.uploadUserImage returns the URL; image_url is set and save() issued
ImageUpload(p) ==
    /\ proc[p].pc = "store" /\ proc[p].op = "image"
    /\ proc' = [proc EXCEPT
           ![p].pc = "write",
           ![p].user = SetAttrs(proc[p].user,
                                [image_url |-> UploadUrl(proc[p].path)])]
    /\ UNCHANGED users

\* files.uploadUserImage throws
ImageUploadFail(p) ==
    /\ proc[p].pc = "store" /\ proc[p].op = "image"
    /\ Fail(p, "upload_error")
    /\ UNCHANGED users

\* the save() of the account with its new image reaches the table
ImageSave(p) ==
    /\ proc[p].pc = "write" /\ proc[p].op = "image"
    /\ users' = SaveExisting(users, proc[p].user)
    /\ Return(p, proc[p].user.id, "edited")

---------------------------------------------------------------------------
(* The inputs of the calls *)

ExternalIds == {"x1", "x2"}

Emails == {"a@x.com", "b@x.com"}

\* the instants new Date() can return
Dates == {1}

\* oauth2Api.userinfo.get: profile.data for the given ids and emails
GoogleProfiles(ids, emails) ==
    {[id |-> x, email |-> e, given_name |-> "A", family_name |-> "B",
      picture |-> "http://img"] : x \in ids, e \in emails}

\* facebookApi.api('me'): profile for the given ids and emails
FacebookProfiles(ids, emails) ==
    {[id |-> x, email |-> e, first_name |-> "A", last_name |-> "B",
      picture |-> [data |-> [url |-> "http://img"]]] : x \in ids, e \in emails}

\* the data of the updateUser calls
Patches ==
    { [first_name |-> "C"],
      [email |-> "b@x.com"],
      [first_name |-> ""],
      [last_name |-> ""],
      [email |-> ""],
      [first_name |-> "", email |-> ""],
      [google_id |-> "x9", image_url |-> "url:evil"],
      [first_name |-> "C", id |-> 7, facebook_id |-> "x9", registration_date |-> 9] }

\* the ids calls name: those of the table and one past it
TargetIds == 1..(Len(users) + 1)

ImagePaths == {"up"}

---------------------------------------------------------------------------
(* Specifications *)

\* the steps of a signInWithGoogle call in slot p
GoogleStep(p, profiles) ==
    \/ GoogleStart(p)
    \/ \E profile \in profiles : GoogleProfile(p, profile)
    \/ GoogleProfileFail(p)
    \/ GoogleFindByEmail(p)
    \/ GoogleLink(p)
    \/ \E now \in Dates : GoogleFindById(p, now)
    \/ GoogleDownload(p)
    \/ GoogleDownloadFail(p)
    \/ GoogleUpload(p)
    \/ GoogleUploadFail(p)
    \/ GoogleSave(p)

\* the steps of a signInWithFacebook call in slot p
FacebookStep(p, profiles) ==
    \/ FacebookStart(p)
    \/ \E profile \in profiles : FacebookProfile(p, profile)
    \/ FacebookProfileFail(p)
    \/ FacebookFindByEmail(p)
    \/ FacebookLink(p)
    \/ \E now \in Dates : FacebookFindById(p, now)
    \/ FacebookDownload(p)
    \/ FacebookDownloadFail(p)
    \/ FacebookUpload(p)
    \/ FacebookUploadFail(p)
    \/ FacebookSave(p)

\* the steps of an updateUser or updateUserImage call in slot p
EditStep(p) ==
    \/ \E id \in TargetIds, data \in Patches : UpdateStart(p, id, data)
    \/ UpdateGet(p)
    \/ UpdateSave(p)
    \/ \E id \in TargetIds, imagePath \in ImagePaths : ImageStart(p, id, imagePath)
    \/ ImageGet(p)
    \/ ImageUpload(p)
    \/ ImageUploadFail(p)
    \/ ImageSave(p)

\* Concurrent sign-ins: the calls of the two slots interleave at their awaits
Next ==
    \E p \in Procs :
        \/ GoogleStep(p, GoogleProfiles(ExternalIds, Emails))
        \/ FacebookStep(p, FacebookProfiles({"x1"}, Emails))

Spec == Init /\ [][Next]_vars

\* One call at a time, sign-ins and edits: every call runs to its end in
\* slot 1 before the next begins
SeqNext ==
    \/ GoogleStep(1, GoogleProfiles(ExternalIds, Emails))
    \/ FacebookStep(1, FacebookProfiles({"x1"}, Emails))
    \/ EditStep(1)

SeqSpec == Init /\ [][SeqNext]_vars

\* the names a provider may send: set, empty, or absent from the profile
GivenNames == {"A", ""}

FamilyNames == {"B", None}

\* googleApi userinfo.get: profiles whose names may be empty or absent
GoogleProfilesNamed(ids, emails) ==
    {[id |-> x, email |-> e, given_name |-> g, family_name |-> f,
      picture |-> "http://img"] :
        x \in ids, e \in emails, g \in GivenNames, f \in FamilyNames}

\* facebookApi.api('me'): profiles whose first name may be empty
FacebookProfilesNamed(ids, emails) ==
    {[id |-> x, email |-> e, first_name |-> g, last_name |-> "B",
      picture |-> [data |-> [url |-> "http://img"]]] :
        x \in ids, e \in emails, g \in GivenNames}

\* One slot: calls run one after another, the providers send any names
NamesNext ==
    \/ GoogleStep(1, GoogleProfilesNamed({"x1"}, Emails))
    \/ FacebookStep(1, FacebookProfilesNamed({"x1"}, {"a@x.com"}))
    \/ EditStep(1)

NamesSpec == Init /\ [][NamesNext]_vars

\* the values new Date() takes in the runs where two clock readings differ
MixDates == {1, 2}

\* the data of the updateUser calls that run beside a sign-in
MixPatches ==
    { [first_name |-> "C", id |-> 7, registration_date |-> 9] }

\* the steps of a signInWithGoogle call in slot p, the clock reading dates
GoogleStepAt(p, profiles, dates) ==
    \/ GoogleStart(p)
    \/ \E profile \in profiles : GoogleProfile(p, profile)
    \/ GoogleProfileFail(p)
    \/ GoogleFindByEmail(p)
    \/ GoogleLink(p)
    \/ \E now \in dates : GoogleFindById(p, now)
    \/ GoogleDownload(p)
    \/ GoogleDownloadFail(p)
    \/ GoogleUpload(p)
    \/ GoogleUploadFail(p)
    \/ GoogleSave(p)

\* the steps of a signInWithFacebook call in slot p, the clock reading dates
FacebookStepAt(p, profiles, dates) ==
    \/ FacebookStart(p)
    \/ \E profile \in profiles : FacebookProfile(p, profile)
    \/ FacebookProfileFail(p)
    \/ FacebookFindByEmail(p)
    \/ FacebookLink(p)
    \/ \E now \in dates : FacebookFindById(p, now)
    \/ FacebookDownload(p)
    \/ FacebookDownloadFail(p)
    \/ FacebookUpload(p)
    \/ FacebookUploadFail(p)
    \/ FacebookSave(p)

\* the steps of an updateUser or updateUserImage call in slot p, the data
\* of updateUser drawn from patches
EditStepWith(p, patches) ==
    \/ \E id \in TargetIds, data \in patches : UpdateStart(p, id, data)
    \/ UpdateGet(p)
    \/ UpdateSave(p)
    \/ \E id \in TargetIds, imagePath \in ImagePaths : ImageStart(p, id, imagePath)
    \/ ImageGet(p)
    \/ ImageUpload(p)
    \/ ImageUploadFail(p)
    \/ ImageSave(p)

\* Sign-ins in slot 1 interleave at their awaits with the edits of slot 2
MixNext ==
    \/ GoogleStepAt(1, GoogleProfiles({"x1"}, {"a@x.com"}), MixDates)
    \/ FacebookStepAt(1, FacebookProfiles({"x1"}, Emails), MixDates)
    \/ EditStepWith(2, MixPatches)

MixSpec == Init /\ [][MixNext]_vars

\* queries.find by email throws
SignInFindByEmailFail(p, o) ==
    /\ proc[p].pc = "find_email" /\ proc[p].op = o
    /\ Fail(p, "query_error")
    /\ UNCHANGED users

\* queries.find by provider id throws
SignInFindByIdFail(p, o) ==
    /\ proc[p].pc = "find_id" /\ proc[p].op = o
    /\ Fail(p, "query_error")
    /\ UNCHANGED users

\* the save() of the linked account throws
SignInLinkFail(p, o) ==
    /\ proc[p].pc = "link" /\ proc[p].op = o
    /\ Fail(p, "save_error")
    /\ UNCHANGED users

\* the save() of the new account throws
SignInSaveFail(p, o) ==
    /\ proc[p].pc = "save" /\ proc[p].op = o
    /\ Fail(p, "save_error")
    /\ UNCHANGED users

\* One slot: sign-ins run one after another and any awaited call may throw
FaultNext ==
    \/ GoogleStep(1, GoogleProfiles({"x1"}, Emails))
    \/ FacebookStep(1, FacebookProfiles({"x1"}, Emails))
    \/ \E o \in {"google", "facebook"} : SignInFindByEmailFail(1, o)
    \/ \E o \in {"google", "facebook"} : SignInFindByIdFail(1, o)
    \/ \E o \in {"google", "facebook"} : SignInLinkFail(1, o)
    \/ \E o \in {"google", "facebook"} : SignInSaveFail(1, o)

FaultSpec == Init /\ [][FaultNext]_vars

---------------------------------------------------------------------------
(* Properties *)

SignIns == {"google", "facebook"}

\* the account field that holds the external id of a provider
IdField(o) == IF o = "google" THEN "google_id" ELSE "facebook_id"

\* the call in slot p takes this step
Steps(p) == proc'[p] # proc[p]

\* slot p runs a sign-in call
InSignIn(p) == proc[p].op \in SignIns /\ ~Free(p)

\* some stored account has this email
EmailKnown(e) == \E i \in Ids : users[i].email = e

\* some stored account has this external id in field f
ExternalIdKnown(f, x) == \E i \in Ids : users[i][f] = x

\* C1: once an account's google_id or facebook_id holds a value, no step of a
\* sign-in call changes that field to a different value.
ExternalIdNeverOverwritten ==
    [][\A p \in Procs :
        (InSignIn(p) /\ Steps(p)) =>
            \A i \in Ids : \A f \in {"google_id", "facebook_id"} :
                users[i][f] # None => users'[i][f] = users[i][f]]_vars

\* C2: when the email lookup of a sign-in runs while some account holds the
\* profile's email, the call goes on to link an account that holds that
\* email; it returns that account, and when its save completes the account's
\* stored external id for the provider is the profile's id and no account
\* was added.
EmailMatchLinks ==
    [][\A p \in Procs :
        LET pr == proc[p].profile
            f == IdField(proc[p].op)
        IN /\ (InSignIn(p) /\ proc[p].pc = "find_email" /\ Steps(p)
                  /\ EmailKnown(pr.email)) =>
                    /\ proc'[p].pc = "link"
                    /\ proc'[p].user.id \in Ids
                    /\ users[proc'[p].user.id].email = pr.email
           /\ (InSignIn(p) /\ proc[p].pc = "link" /\ Steps(p)) =>
                    /\ proc'[p].pc = "done"
                    /\ proc'[p].match = "email"
                    /\ proc'[p].result = proc[p].user.id
                    /\ proc[p].user.email = pr.email
                    /\ users'[proc'[p].result][f] = pr.id
                    /\ users'[proc'[p].result].email = pr.email
                    /\ Len(users') = Len(users)]_vars

\* C2 witness: a Google sign-in has returned an account matched by email
\* that had no google_id before and now stores the profile's id.
EmailMatchLinked ==
    \E p \in Procs :
        /\ proc[p].pc = "done" /\ proc[p].op = "google" /\ proc[p].match = "email"
        /\ users[proc[p].result].email = proc[p].profile.email
        /\ users[proc[p].result].google_id = proc[p].profile.id
        /\ users[proc[p].result].facebook_id # None
        /\ ~proc[p].again

\* C3: when the external-id lookup of a sign-in hits (the email lookup
\* having matched no account), the call returns an account holding that
\* external id, and no step of the call up to its return writes to the
\* storage.
ExternalIdMatchLeavesStorage ==
    [][\A p \in Procs :
        LET pr == proc[p].profile
            f == IdField(proc[p].op)
        IN /\ (proc'[p].op \in SignIns /\ Steps(p)
                  /\ proc[p].pc \in {"idle", "done", "failed", "profile", "find_email"})
                    => users' = users
           /\ (InSignIn(p) /\ proc[p].pc = "find_id" /\ Steps(p)
                  /\ ExternalIdKnown(f, pr.id)) =>
                    /\ ~EmailKnown(pr.email)
                    /\ proc'[p].pc = "done"
                    /\ proc'[p].match = "id"
                    /\ proc'[p].result \in Ids
                    /\ users[proc'[p].result][f] = pr.id
                    /\ users' = users]_vars

\* C3 witness: a sign-in has returned an account matched by external id
\* whose email differs from the profile's.
ExternalIdMatched ==
    \E p \in Procs :
        /\ proc[p].pc = "done" /\ proc[p].op \in SignIns /\ proc[p].match = "id"
        /\ users[proc[p].result].email # proc[p].profile.email
        /\ users[proc[p].result][IdField(proc[p].op)] = proc[p].profile.id

\* the given and the family name a provider's profile carries
GivenName(o, profile) ==
    IF o = "google" THEN profile.given_name ELSE profile.first_name

FamilyName(o, profile) ==
    IF o = "google" THEN profile.family_name ELSE profile.last_name

\* a value that is set and not empty
Present(v) == v # None /\ v # ""

\* C4: in a sign-in that runs alone and whose lookups both miss, the call
\* goes through download and upload to one save; that save adds exactly one
\* account and changes no other; the new account has the profile's email
\* and names, a non-empty image_url and the profile's id in the provider's
\* field, and it is the account returned.
NewAccountCreated ==
    [][\A p \in Procs :
        LET pr == proc[p].profile
            o == proc[p].op
            f == IdField(o)
        IN /\ (InSignIn(p) /\ proc[p].pc = "find_id" /\ Steps(p)
                  /\ ~ExternalIdKnown(f, pr.id)) =>
                    /\ ~EmailKnown(pr.email)
                    /\ proc'[p].pc = "download"
           /\ (InSignIn(p) /\ proc[p].pc = "download" /\ Steps(p)) =>
                    /\ proc'[p].pc \in {"upload", "failed"}
                    /\ users' = users
           /\ (InSignIn(p) /\ proc[p].pc = "upload" /\ Steps(p)) =>
                    /\ proc'[p].pc \in {"save", "failed"}
                    /\ users' = users
           /\ (InSignIn(p) /\ proc[p].pc = "save" /\ Steps(p)) =>
                    /\ Len(users') = Len(users) + 1
                    /\ \A i \in Ids : users'[i] = users[i]
                    /\ LET n == users'[Len(users')]
                       IN /\ n.id = Len(users')
                          /\ n.email = pr.email
                          /\ n.first_name = GivenName(o, pr)
                          /\ n.last_name = FamilyName(o, pr)
                          /\ Present(n.image_url)
                          /\ n[f] = pr.id
                          /\ proc'[p].pc = "done"
                          /\ proc'[p].match = "created"
                          /\ proc'[p].result = n.id]_vars

\* C4 witness: a Facebook sign-in has created the second account of the
\* table and returned it.
SecondAccountCreated ==
    \E p \in Procs :
        /\ proc[p].pc = "done" /\ proc[p].op = "facebook"
        /\ proc[p].match = "created"
        /\ proc[p].result = 2 /\ Len(users) = 2
        /\ users[2].email = proc[p].profile.email
        /\ users[2].facebook_id = proc[p].profile.id
        /\ Present(users[2].image_url)

\* C5: a sign-in that repeats the provider and profile of the successful
\* sign-in just before it, with no call in between, writes nothing to the
\* storage, never enters the creation branch, does not fail, and returns
\* the account the first call returned.
SignInIdempotent ==
    [][\A p \in Procs :
        (InSignIn(p) /\ proc[p].again /\ proc[p].pc # "profile" /\ Steps(p)) =>
            /\ users' = users
            /\ proc'[p].pc \in {"link", "find_id", "done"}
            /\ proc'[p].pc = "done" => proc'[p].result = proc[p].result]_vars

\* C5 witness: the repeat of a sign-in has returned, by the email match,
\* the account the first call created.
RepeatedSignInReturned ==
    \E p \in Procs :
        /\ proc[p].pc = "done" /\ proc[p].op \in SignIns /\ proc[p].again
        /\ proc[p].match = "email"
        /\ users[proc[p].result][IdField(proc[p].op)] = proc[p].profile.id

\* C6: every stored account has its image_url set, and a new account whose
\* save is in flight already carries the URL of its uploaded image.
AvatarAlwaysSet ==
    /\ \A i \in Ids : Present(users[i].image_url)
    /\ \A p \in Procs :
          (InSignIn(p) /\ proc[p].pc = "save") =>
              /\ proc[p].path # None
              /\ proc[p].user.image_url = UploadUrl(proc[p].path)
              /\ Present(proc[p].user.image_url)

\* C6 witness: two accounts created by sign-ins are stored while another
\* sign-in is about to write one of them back.
AccountsStoredWithAvatar ==
    /\ Len(users) = 2
    /\ \E p \in Procs : proc[p].pc = "done" /\ proc[p].match = "created"
    /\ \E p \in Procs : proc[p].pc = "link"

\* C7: in a sign-in that runs alone, while the avatar is downloaded or
\* uploaded the new account is not in the storage, and a failure of either
\* step ends the call with that failure and leaves the storage as it was.
IngestionFailureLeavesStorage ==
    [][\A p \in Procs :
        LET pr == proc[p].profile
            f == IdField(proc[p].op)
        IN /\ (proc'[p].op \in SignIns /\ Steps(p)
                  /\ proc[p].pc \in {"idle", "done", "failed", "profile",
                                     "find_email", "find_id"}
                  /\ proc'[p].pc # "done")
                    => users' = users
           /\ (InSignIn(p) /\ proc[p].pc \in {"download", "upload"} /\ Steps(p)) =>
                    /\ proc[p].user.id = 0
                    /\ ~EmailKnown(pr.email)
                    /\ ~ExternalIdKnown(f, pr.id)
                    /\ users' = users
                    /\ proc'[p].pc = "failed" =>
                          /\ proc'[p].error =
                                IF proc[p].pc = "download" THEN "download_error"
                                                          ELSE "upload_error"
                          /\ proc'[p].user = Nil]_vars

\* C7 witness: a Google sign-in on a table of one account has failed in the
\* upload and the table still holds that one account.
UploadFailed ==
    /\ proc[1].pc = "failed" /\ proc[1].op = "google"
    /\ proc[1].error = "upload_error"
    /\ Len(users) = 1

\* the three validated attributes of the account of an updateUser call after
\* the allowed attributes of its data are applied
Merged(p) ==
    [k \in {"first_name", "last_name", "email"} |->
        IF k \in DOMAIN proc[p].data THEN proc[p].data[k]
                                     ELSE users[proc[p].id][k]]

\* the attribute an error of validateUser names
ErrorField(err) ==
    IF err = "first_name_required" THEN "first_name"
    ELSE IF err = "last_name_required" THEN "last_name"
    ELSE "email"

InUpdate(p) == proc[p].op = "update" /\ ~Free(p)

\* C8: when updateUser has loaded an existing account and one of
\* first_name, last_name, email is missing or empty after the allowed
\* attributes are applied, the call fails with first_name_required,
\* last_name_required or email_required, the error names an attribute that
\* is missing, no save is issued and the storage is unchanged.
InvalidUpdateRejected ==
    [][\A p \in Procs :
        (InUpdate(p) /\ proc[p].pc = "get" /\ Steps(p) /\ proc[p].id \in Ids
           /\ \E k \in DOMAIN Merged(p) : ~Present(Merged(p)[k])) =>
            /\ proc'[p].pc = "failed"
            /\ proc'[p].error \in {"first_name_required", "last_name_required",
                                    "email_required"}
            /\ ~Present(Merged(p)[ErrorField(proc'[p].error)])
            /\ users' = users]_vars

\* C8 witness: an updateUser call has failed with email_required.
UpdateRejectedForEmail ==
    /\ proc[1].pc = "failed" /\ proc[1].op = "update"
    /\ proc[1].error = "email_required"
    /\ Len(users) >= 1

\* C9: an updateUser call on an existing account whose first_name,
\* last_name and email are non-empty after the patch succeeds; its save
\* changes no other account, sets first_name, last_name and email to the
\* patch's values where the patch names them, and leaves every other
\* attribute of the account as it was, whatever else the patch names.
OnlyAllowedAttrsChange ==
    [][\A p \in Procs :
        /\ (InUpdate(p) /\ proc[p].pc = "get" /\ Steps(p) /\ proc[p].id \in Ids
              /\ \A k \in DOMAIN Merged(p) : Present(Merged(p)[k])) =>
                /\ proc'[p].pc = "write"
                /\ users' = users
        /\ (InUpdate(p) /\ proc[p].pc = "write" /\ Steps(p)) =>
                /\ proc'[p].pc = "done"
                /\ proc'[p].result = proc[p].id
                /\ Len(users') = Len(users)
                /\ \A i \in Ids : i # proc[p].id => users'[i] = users[i]
                /\ DOMAIN users'[proc[p].id] = DOMAIN users[proc[p].id]
                /\ \A k \in DOMAIN users[proc[p].id] :
                      users'[proc[p].id][k] =
                          IF k \in DOMAIN Merged(p) THEN Merged(p)[k]
                                                   ELSE users[proc[p].id][k]]_vars

\* C9 witness: an updateUser call whose data named id, facebook_id and
\* registration_date beside first_name has succeeded.
UpdateWithExtraAttrsDone ==
    /\ proc[1].pc = "done" /\ proc[1].op = "update"
    /\ {"id", "facebook_id", "registration_date"} \subseteq DOMAIN proc[1].data
    /\ users[proc[1].id].first_name = proc[1].data.first_name
    /\ users[proc[1].id].facebook_id # proc[1].data.facebook_id

\* C10: a sign-in's lookups see only the stored accounts, not the accounts
\* other calls are about to save: they miss whenever no stored account
\* matches, and the save of a new account inserts it whether or not an
\* account with its email has been stored since the lookup.
SaveInsertsWithoutRecheck ==
    [][\A p \in Procs :
        LET pr == proc[p].profile
            f == IdField(proc[p].op)
        IN /\ (InSignIn(p) /\ proc[p].pc = "find_email" /\ Steps(p)
                  /\ ~EmailKnown(pr.email)) => proc'[p].pc = "find_id"
           /\ (InSignIn(p) /\ proc[p].pc = "find_id" /\ Steps(p)
                  /\ ~ExternalIdKnown(f, pr.id)) => proc'[p].pc = "download"
           /\ (InSignIn(p) /\ proc[p].pc = "save" /\ Steps(p)) =>
                  /\ Len(users') = Len(users) + 1
                  /\ users'[Len(users')].email = pr.email
                  /\ proc'[p].match = "created"]_vars

\* C10 witness: two sign-ins with the same email have both created an
\* account, and the storage holds the two accounts with that email.
DuplicateEmailAccounts ==
    \E p, q \in Procs :
        /\ p # q
        /\ proc[p].pc = "done" /\ proc[p].match = "created"
        /\ proc[q].pc = "done" /\ proc[q].match = "created"
        /\ proc[p].profile.email = proc[q].profile.email
        /\ proc[p].result # proc[q].result
        /\ users[proc[p].result].email = proc[p].profile.email
        /\ users[proc[q].result].email = proc[p].profile.email

\* the field of the other provider
OtherIdField(o) == IF o = "google" THEN "facebook_id" ELSE "google_id"

\* C11: when a sign-in, running alone, finds by email an account that a
\* sign-in through the other provider created (it holds the other provider's
\* id and none for this provider), the call links and returns that account
\* (the first account with the email, were several to hold it):
\* no account is added, the account then holds this provider's id from the
\* profile, the other provider's id and every other attribute are as they
\* were, and no other account changes.
CrossProviderLinks ==
    [][\A p \in Procs :
        LET pr == proc[p].profile
            o == proc[p].op
            a == proc[p].user.id
        IN /\ (InSignIn(p) /\ proc[p].pc = "find_email" /\ Steps(p)
                  /\ \E i \in Ids : /\ users[i].email = pr.email
                                    /\ users[i][OtherIdField(o)] # None
                                    /\ users[i][IdField(o)] = None) =>
                    /\ proc'[p].pc = "link"
                    /\ users[proc'[p].user.id].email = pr.email
                    /\ \A i \in Ids :
                          (\A j \in Ids : users[j].email = pr.email <=> j = i)
                              => proc'[p].user.id = i
           /\ (InSignIn(p) /\ proc[p].pc = "link" /\ Steps(p)
                  /\ users[a][OtherIdField(o)] # None
                  /\ users[a][IdField(o)] = None) =>
                    /\ proc'[p].pc = "done"
                    /\ proc'[p].result = a
                    /\ Len(users') = Len(users)
                    /\ users'[a][IdField(o)] = pr.id
                    /\ users'[a][OtherIdField(o)] = users[a][OtherIdField(o)]
                    /\ \A k \in DOMAIN users[a] \ {IdField(o)} :
                          users'[a][k] = users[a][k]
                    /\ \A i \in Ids \ {a} : users'[i] = users[i]]_vars

\* C11 witness: a Facebook sign-in has returned, by the email match, the
\* only account of the table, which holds a Google id and now the Facebook
\* id of the profile.
BothProvidersLinked ==
    /\ proc[1].pc = "done" /\ proc[1].op = "facebook" /\ proc[1].match = "email"
    /\ ~proc[1].again
    /\ Len(users) = 1 /\ proc[1].result = 1
    /\ users[1].google_id \in ExternalIds
    /\ users[1].facebook_id = proc[1].profile.id
    /\ users[1].email = proc[1].profile.email

\* C12: every stored account has a non-empty first_name, last_name and
\* email.
RequiredAttrsPresent ==
    \A i \in Ids :
        /\ Present(users[i].first_name)
        /\ Present(users[i].last_name)
        /\ Present(users[i].email)

\* C13: no step of any call, in any interleaving of sign-ins and edits,
\* removes an account or changes the id or the registration_date of a stored
\* account, and the id of an account is its place in the table.
IdAndDateFixed ==
    [][/\ Len(users') >= Len(users)
       /\ \A i \in Ids :
             /\ users[i].id = i
             /\ users'[i].id = users[i].id
             /\ users'[i].registration_date = users[i].registration_date]_vars

\* C13 witness: two accounts registered at different dates are stored; the
\* first has been linked to both providers and renamed by an updateUser
\* call whose data named id and registration_date, and has a new image.
EditedAccountKeepsDate ==
    /\ Len(users) = 2
    /\ users[1].registration_date # users[2].registration_date
    /\ users[1].google_id # None /\ users[1].facebook_id # None
    /\ users[1].first_name = "C"
    /\ users[1].image_url = UploadUrl("up")
    /\ proc[2].pc = "done" /\ proc[2].op = "update" /\ proc[2].id = 1
    /\ "registration_date" \in DOMAIN proc[2].data

\* C14: when the email lookup of a sign-in runs while one account holds the
\* profile's email and a different account, with another email, holds the
\* profile's external id, the call takes the email match: it links and
\* returns an account with the profile's email, and its save leaves the
\* account that holds the external id, and every other account, as stored.
EmailMatchWinsOverExternalId ==
    [][\A p \in Procs :
        LET pr == proc[p].profile
            f == IdField(proc[p].op)
            a == proc[p].user.id
        IN /\ (InSignIn(p) /\ proc[p].pc = "find_email" /\ Steps(p)
                  /\ EmailKnown(pr.email)
                  /\ \E b \in Ids : users[b][f] = pr.id
                                    /\ users[b].email # pr.email) =>
                    /\ proc'[p].pc = "link"
                    /\ users[proc'[p].user.id].email = pr.email
                    /\ users' = users
           /\ (InSignIn(p) /\ proc[p].pc = "link" /\ Steps(p)
                  /\ \E b \in Ids \ {a} : users[b][f] = pr.id) =>
                    /\ proc'[p].pc = "done"
                    /\ proc'[p].match = "email"
                    /\ proc'[p].result = a
                    /\ users[a].email = pr.email
                    /\ \A b \in Ids \ {a} : users'[b] = users[b]]_vars

\* C14 witness: a sign-in has returned the account matched by email while
\* another account, with another email, holds the external id of the
\* profile.
EmailMatchedDespiteExternalId ==
    \E b \in Ids :
        /\ proc[1].pc = "done" /\ proc[1].op \in SignIns
        /\ proc[1].match = "email" /\ ~proc[1].again
        /\ b # proc[1].result
        /\ users[b][IdField(proc[1].op)] = proc[1].profile.id
        /\ users[b].email # proc[1].profile.email
        /\ users[proc[1].result].email = proc[1].profile.email

\* C15: a sign-in whose email lookup or external-id lookup hits goes straight
\* to its return: the email hit leads to the one save of the linked account,
\* the external-id hit to the return itself; neither step adds or removes an
\* account, the call has downloaded no file when it returns, and a call
\* enters the download only from an external-id lookup that missed, and the
\* upload only from the download.
ResolvedSignInOnlyLinks ==
    [][\A p \in Procs :
        LET pr == proc[p].profile
            f == IdField(proc[p].op)
        IN /\ (InSignIn(p) /\ proc[p].pc = "find_email" /\ Steps(p)
                  /\ EmailKnown(pr.email)) =>
                    /\ proc'[p].pc = "link"
                    /\ proc'[p].path = None
                    /\ users' = users
           /\ (InSignIn(p) /\ proc[p].pc = "link" /\ Steps(p)) =>
                    /\ proc[p].path = None
                    /\ proc'[p].pc = "done"
                    /\ Len(users') = Len(users)
           /\ (InSignIn(p) /\ proc[p].pc = "find_id" /\ Steps(p)
                  /\ ExternalIdKnown(f, pr.id)) =>
                    /\ proc[p].path = None
                    /\ proc'[p].pc = "done"
                    /\ users' = users
           /\ (Steps(p) /\ proc'[p].pc = "download") =>
                    /\ proc[p].pc = "find_id"
                    /\ ~ExternalIdKnown(f, pr.id)
           /\ (Steps(p) /\ proc'[p].pc = "upload" /\ proc'[p].op \in SignIns) =>
                    proc[p].pc = "download"]_vars

\* C15 witness: on a table of one account, one sign-in has returned the
\* account by the email match and a concurrent one by the external-id match.
BothResolvedToOneAccount ==
    \E p, q \in Procs :
        /\ Len(users) = 1
        /\ proc[p].pc = "done" /\ proc[p].match = "email" /\ proc[p].result = 1
        /\ proc[q].pc = "done" /\ proc[q].match = "id" /\ proc[q].result = 1
        /\ proc[p].path = None /\ proc[q].path = None

\* slot p runs the repeat of a sign-in that resolved its account by the
\* email match: same provider, same profile, no call in between
RepeatsEmailMatch(p) ==
    /\ InSignIn(p) /\ proc[p].pc # "profile"
    /\ proc[p].again /\ proc[p].before = "email"

\* C16: the repeat of a sign-in that matched its account by email and
\* stored the provider's id on it resolves the account through the
\* external-id lookup, not the email lookup, and issues no save.
RepeatResolvesByExternalId ==
    [][\A p \in Procs :
        (RepeatsEmailMatch(p) /\ Steps(p)) =>
            /\ proc'[p].pc \in {"find_id", "done"}
            /\ proc'[p].pc = "done" =>
                  /\ proc'[p].match = "id"
                  /\ proc'[p].result = proc[p].result
            /\ users' = users]_vars

\* C16 (amended): the repeat of a sign-in that matched its account by email
\* and stored the provider's id on it matches the same account by email
\* again, never reaching the external-id lookup; it sets the same id on the
\* loaded account and saves it a second time, which leaves the storage as
\* it was, and returns that account.
RepeatResolvesByEmailAgain ==
    [][\A p \in Procs :
        LET pr == proc[p].profile
            f == IdField(proc[p].op)
        IN /\ (RepeatsEmailMatch(p) /\ Steps(p) /\ proc[p].pc = "find_email") =>
                    /\ proc'[p].pc = "link"
                    /\ proc'[p].user = users[proc[p].result]
                    /\ users[proc[p].result][f] = pr.id
                    /\ users' = users
           /\ (RepeatsEmailMatch(p) /\ Steps(p) /\ proc[p].pc # "find_email") =>
                    /\ proc[p].pc = "link"
                    /\ proc'[p].pc = "done"
                    /\ proc'[p].match = "email"
                    /\ proc'[p].result = proc[p].result
                    /\ users' = users]_vars

\* C16 witness: a Google sign-in that repeats one resolved by the email
\* match has returned, again by the email match, the account that already
\* held the profile's Google id.
RepeatMatchedByEmail ==
    /\ proc[1].pc = "done" /\ proc[1].op = "google"
    /\ proc[1].again /\ proc[1].before = "email" /\ proc[1].match = "email"
    /\ users[proc[1].result].google_id = proc[1].profile.id
    /\ users[proc[1].result].email = proc[1].profile.email

\* the place of a sign-in's step in the order of the call: profile fetch,
\* email lookup, external-id lookup, download, upload, save, and the end
StepOrder(pc) ==
    IF pc = "profile" THEN 1
    ELSE IF pc = "find_email" THEN 2
    ELSE IF pc = "find_id" THEN 3
    ELSE IF pc = "download" THEN 4
    ELSE IF pc = "upload" THEN 5
    ELSE IF pc \in {"link", "save"} THEN 6
    ELSE 7

\* the error a sign-in ends with when the step at pc throws
StepError(pc) ==
    IF pc = "profile" THEN "provider_error"
    ELSE IF pc \in {"find_email", "find_id"} THEN "query_error"
    ELSE IF pc = "download" THEN "download_error"
    ELSE IF pc = "upload" THEN "upload_error"
    ELSE "save_error"

\* C17: every step of a sign-in call moves the call forward in the order
\* profile fetch, email lookup, external-id lookup, download, upload, save,
\* so that no step runs twice; a step that throws ends the call with the
\* error of that step and writes nothing, and the slot's next step is the
\* start of another call.
NoInternalRetry ==
    [][\A p \in Procs :
        /\ (InSignIn(p) /\ Steps(p)) =>
              /\ StepOrder(proc'[p].pc) > StepOrder(proc[p].pc)
              /\ proc'[p].pc \in {"find_email", "find_id", "link", "download",
                                   "upload", "save", "done", "failed"}
              /\ proc'[p].pc = "failed" =>
                    /\ proc'[p].error = StepError(proc[p].pc)
                    /\ users' = users
        /\ (proc[p].pc \in {"done", "failed"} /\ Steps(p)) =>
              /\ proc'[p].pc = "profile"
              /\ users' = users]_vars

\* C17 witness: a sign-in on a table of one account has gone through its
\* steps up to a save, the save has thrown, and the call has ended with
\* that error.
SaveFailed ==
    /\ proc[1].pc = "failed" /\ proc[1].op \in SignIns
    /\ proc[1].error = "save_error"
    /\ Len(users) = 1

\* C18: when updateUser has loaded an existing account and some of
\* first_name, last_name, email are missing or empty after the allowed
\* attributes are applied, the call fails with one error: first_name_required
\* exactly when the first name is missing, last_name_required exactly when
\* the first name is present and the last name missing, email_required
\* exactly when both names are present and the email is missing.
ValidationOrder ==
    [][\A p \in Procs :
        LET m == Merged(p)
        IN (InUpdate(p) /\ proc[p].pc = "get" /\ Steps(p) /\ proc[p].id \in Ids
              /\ \E k \in DOMAIN m : ~Present(m[k])) =>
                /\ proc'[p].pc = "failed"
                /\ proc'[p].error \in {"first_name_required", "last_name_required",
                                        "email_required"}
                /\ proc'[p].error = "first_name_required"
                      <=> ~Present(m.first_name)
                /\ proc'[p].error = "last_name_required"
                      <=> (Present(m.first_name) /\ ~Present(m.last_name))
                /\ proc'[p].error = "email_required"
                      <=> (Present(m.first_name) /\ Present(m.last_name)
                             /\ ~Present(m.email))]_vars

\* C18 witness: updateUser on the only account of the table, stored by a
\* sign-in without first and last name (no data of updateUser sets a
\* non-empty last name, so the merged account lacked both), has failed with
\* first_name_required.
FirstNameReportedFirst ==
    /\ Len(users) = 1
    /\ ~Present(users[1].first_name) /\ ~Present(users[1].last_name)
    /\ \A data \in Patches :
          "last_name" \in DOMAIN data => ~Present(data.last_name)
    /\ proc[1].pc = "failed" /\ proc[1].op = "update"
    /\ proc[1].error = "first_name_required"

\* C19: no two distinct stored accounts hold the same google_id, and no two
\* the same facebook_id.
ExternalIdsUnique ==
    \A i, j \in Ids : \A f \in {"google_id", "facebook_id"} :
        (i # j /\ users[i][f] # None) => users[i][f] # users[j][f]

\* C20: while sign-ins interleave with edits of the same account, no step
\* takes a stored google_id or facebook_id back to unset, and no step takes
\* back the first name or the image an edit has stored.
NoLostUpdate ==
    [][\A i \in Ids :
        /\ \A f \in {"google_id", "facebook_id"} :
              users[i][f] # None => users'[i][f] # None
        /\ users[i].first_name = "C" => users'[i].first_name = "C"
        /\ users[i].image_url = UploadUrl("up")
              => users'[i].image_url = UploadUrl("up")]_vars

====
